---- MODULE Spec2Model ----
(***************************************************************************)
(* Model of src/src/content_bruter.py: one invocation of main(), in        *)
(* "dir" mode (WebBruter) or "joomla" mode (JoomlaBruter).                 *)
(*                                                                         *)
(* Scheduling is asyncio's: one task runs at a time and control changes    *)
(* hands only where a coroutine really suspends.  The suspension points    *)
(* of a worker are the request (session.get / session.post), the body     *)
(* read (response.text()) and asyncio.sleep(); queue.get() on a non-empty  *)
(* unbounded asyncio.Queue and queue.put() do not suspend.  Every action   *)
(* below is the code between two suspension points of one task.            *)
(*                                                                         *)
(* asyncio.CancelledError derives from BaseException (Python 3.8+, which   *)
(* aiohttp requires), so "except Exception" does not catch it.             *)
(* An interrupt is delivered as a cancellation of the main task            *)
(* (asyncio.run, Python 3.11+); the model covers one cancellation, taken   *)
(* while run() awaits the workers.                                         *)
(***************************************************************************)
EXTENDS Integers, Sequences, FiniteSets, TLC

\* ------------------------------------------------------------- bounds
MaxThreads == 2
MaxLines == 2

\* ------------------------------------------------------------- strings
\* A string is a sequence of one-character strings.
IsSpace(c) == c \in {" ", "\n"}

RECURSIVE LStrip(_)
LStrip(s) == IF s = <<>> THEN s
             ELSE IF IsSpace(Head(s)) THEN LStrip(Tail(s)) ELSE s

RECURSIVE RStrip(_)
RStrip(s) == IF s = <<>> THEN s
             ELSE IF IsSpace(s[Len(s)]) THEN RStrip(SubSeq(s, 1, Len(s) - 1)) ELSE s

\* str.strip()
Strip(s) == RStrip(LStrip(s))

\* "." in word
HasDot(s) == \E i \in 1..Len(s) : s[i] = "."

RECURSIVE LStripSlash(_)
LStripSlash(s) == IF s = <<>> THEN s
                  ELSE IF Head(s) = "/" THEN LStripSlash(Tail(s)) ELSE s

RECURSIVE RStripSlash(_)
RStripSlash(s) == IF s = <<>> THEN s
                  ELSE IF s[Len(s)] = "/" THEN RStripSlash(SubSeq(s, 1, Len(s) - 1)) ELSE s

Range(s) == {s[i] : i \in 1..Len(s)}

\* ------------------------------------------------------------- inputs
\* The lines a wordlist file is made of, as read (with their line ends).
Lines == { <<"a", "\n">>, <<"b", ".", "c", "\n">> }

RECURSIVE SeqsUpTo(_, _)
SeqsUpTo(S, n) == IF n = 0 THEN {<<>>}
                  ELSE LET shorter == SeqsUpTo(S, n - 1)
                       IN shorter \cup {Append(s, x) : s \in {t \in shorter : Len(t) = n - 1}, x \in S}

Files == SeqsUpTo(Lines, MaxLines)

\* -e/--extensions of the dir parser; [] for joomla
ExtChoices == { <<>>, << <<".", "p">> >> }

\* -i/--indicators of the joomla parser; [] for dir
Indicator == "Control Panel"

target_url == <<"t", "/">>

\* What the target answers to one request: a transport failure before the
\* response ("conn_err"), a response whose body cannot be read ("read_err"),
\* or a response with a status and a body.  A body is given by the set of
\* phrases that occur in it.
Response(kind, status, body) == [kind |-> kind, status |-> status, body |-> body]

DirResponses ==
    { Response("conn_err", 0, {}), Response("read_err", 200, {}),
      Response("ok", 200, {}), Response("ok", 404, {}) }

JoomlaResponses ==
    { Response("conn_err", 0, {}), Response("read_err", 200, {}),
      Response("ok", 200, {Indicator}), Response("ok", 200, {}) }

\* ------------------------------------------------------------- state
VARIABLES
    command,        \* args.command
    config,         \* BruteForceConfig (the fields the engine reads)
    wordfile,       \* the lines of the file at config.wordlist_path
    target,         \* the remote target: candidate -> Response
    pc,             \* where main() / run() stands
    error,          \* the exception propagating out of run()'s try block
    exit_code,      \* -1 while running, then the process exit code
    session,        \* self.session: 0 is None, else the id of a session
    sessions,       \* every ClientSession created: id -> "open" | "closed"
    queue,          \* self.queue
    found_paths,    \* self.found_paths
    stop_event,     \* self.stop_event
    scanned_count,  \* self.scanned_count
    wpc,            \* worker task -> where it stands
    cur,            \* worker task -> the queue entry it pulled last (its local
                    \* "path" / "password"); NoEntry once the task has ended
    cancelled,      \* the main task was cancelled from outside
    results_file,   \* found_paths.json: <<>> while not written
    pulls,          \* history: queue entry id -> how many times it was pulled
    probed,         \* history: queue entry id -> how many probes of it returned
    returned        \* history: the Hit outcomes the probes returned, in order

vars == << command, config, wordfile, target, pc, error, exit_code, session, sessions,
           queue, found_paths, stop_event, scanned_count, wpc, cur, cancelled,
           results_file, pulls, probed, returned >>

Workers == 1..MaxThreads

\* the tasks run() creates
Tasks == 1..config.threads

NoEntry == [id |-> 0, word |-> <<>>]

\* ------------------------------------------------------------- load_wordlist
\* The queue holds entries [id, word]: word is what the code enqueues, id is
\* the entry's position in the order of enqueueing (its identity).
Put(q, word) == Append(q, [id |-> Len(q) + 1, word |-> word])

RECURSIVE PutExtensions(_, _, _)
PutExtensions(q, word, exts) ==
    IF exts = <<>> THEN q
    ELSE PutExtensions(Put(q, word \o Head(exts)), word, Tail(exts))

\* Variant: the variants are added for a word with a "." as well.
PutLine_AlwaysExt(q, line, exts) ==
    LET word == Strip(line)
    IN IF word # <<>>
       THEN PutExtensions(Put(q, word), word, exts)
       ELSE q

PutLine(q, line, exts) ==
    LET word == Strip(line)
    IN IF word # <<>>
       THEN IF ~HasDot(word) /\ exts # <<>>
            THEN PutExtensions(Put(q, word), word, exts)
            ELSE Put(q, word)
       ELSE q

RECURSIVE load_wordlist(_, _, _)
load_wordlist(q, lines, exts) ==
    IF lines = <<>> THEN q
    ELSE load_wordlist(PutLine(q, Head(lines), exts), Tail(lines), exts)

Candidates(lines, exts) == {e.word : e \in Range(load_wordlist(<<>>, lines, exts))}

\* ------------------------------------------------------------- probes
\* f"{self.config.target_url.rstrip('/')}/{path.lstrip('/')}"
Url(path) == RStripSlash(target_url) \o <<"/">> \o LStripSlash(path)

InterestingStatus == {200, 301, 302, 403}

\* any(indicator in content for indicator in self.config.success_indicators)
AnyIndicator(indicators, content) == \E i \in 1..Len(indicators) : indicators[i] \in content

Miss == <<0, <<>>>>

\* Variant: the status is tested first and the body only for an interesting
\* status.
check_path_StatusFirst(resp, path, indicators) ==
    IF resp.status \notin InterestingStatus THEN Miss
    ELSE <<resp.status, Url(path)>>

\* What check_path returns for a response whose body was read.
check_path(resp, path, indicators) ==
    IF AnyIndicator(indicators, resp.body) THEN <<resp.status, Url(path)>>
    ELSE IF resp.status \in InterestingStatus THEN <<resp.status, Url(path)>>
    ELSE Miss

\* Variant: a login is taken to have succeeded on status 200.
brute_force_login_ByStatus(resp, indicators) == resp.status = 200

\* What brute_force_login returns for a response whose body was read.
brute_force_login(resp, indicators) == AnyIndicator(indicators, resp.body)

\* ------------------------------------------------------------- workers
\* Variants of the loop test: one that does not read the stop event, one that
\* stops one entry early.
LoopCondition_IgnoreStop(q, stop) == q # <<>>
LoopCondition_OffByOne(q, stop) == Len(q) > 1 /\ ~stop

\* Variant: the loop test reads the stop event only.
LoopCondition_IgnoreEmpty(q, stop) == ~stop

\* while not self.queue.empty() and not self.stop_event.is_set()
LoopCondition(q, stop) == q # <<>> /\ ~stop

\* self.queue.get() on a non-empty queue: the entry taken and the queue left
QueueFront(q) == Head(q)

\* Variant: the entry is read and left in the queue.
QueueGet_Peek(q) == q

QueueGet(q) == Tail(q)

\* Variant: a hit equal to one already recorded is not recorded again.
RecordHit_Dedup(fp, hit) == IF hit \in Range(fp) THEN fp ELSE Append(fp, hit)

\* Variant: the list is replaced by the new hit.
RecordHit_Overwrite(fp, hit) == <<hit>>

\* self.found_paths.append(...)
RecordHit(fp, hit) == Append(fp, hit)

\* The loop head, from task start or from the end of asyncio.sleep(): the
\* test, and with it either the pull and the start of the request, or the
\* end of the task. queue.get() on an empty queue suspends the task until
\* an entry is put; nothing puts an entry once load_wordlist has returned.
WorkerLoop(w) ==
    /\ wpc[w] \in {"created", "sleeping"}
    /\ IF LoopCondition(queue, stop_event)
       THEN IF queue = <<>>
            THEN /\ wpc' = [wpc EXCEPT ![w] = "blocked_get"]
                 /\ UNCHANGED << cur, queue, pulls >>
            ELSE /\ cur' = [cur EXCEPT ![w] = QueueFront(queue)]
                 /\ queue' = QueueGet(queue)
                 /\ pulls' = [pulls EXCEPT ![QueueFront(queue).id] = @ + 1]
                 /\ wpc' = [wpc EXCEPT ![w] = "requesting"]
       ELSE /\ wpc' = [wpc EXCEPT ![w] = "done"]
            /\ cur' = [cur EXCEPT ![w] = NoEntry]
            /\ UNCHANGED << queue, pulls >>
    /\ UNCHANGED << command, config, wordfile, target, pc, error, exit_code, session,
                    sessions, found_paths, stop_event, scanned_count, cancelled,
                    results_file, probed, returned >>

\* Variant: the (0, "") of a failed or uninteresting probe counts as found.
IsFound_Geq(status) == status >= 0

\* "if status > 0"
IsFound(status) == status > 0

\* WebBruter.worker after check_path has returned (status, url)
WebRoute(w, result) ==
    /\ probed' = [probed EXCEPT ![cur[w].id] = @ + 1]
    /\ IF IsFound(result[1])
       THEN /\ found_paths' = RecordHit(found_paths, result)
            /\ returned' = Append(returned, result)
       ELSE UNCHANGED << found_paths, returned >>
    /\ wpc' = [wpc EXCEPT ![w] = "sleeping"]

\* session.get() ends: with an exception (check_path returns (0, "")), or
\* with the response, which is counted before its body is read.
WebProbeResponse(w) ==
    /\ command = "dir"
    /\ wpc[w] = "requesting"
    /\ IF target[cur[w].word].kind = "conn_err"
       THEN /\ WebRoute(w, Miss)
            /\ UNCHANGED scanned_count
       ELSE /\ scanned_count' = scanned_count + 1
            /\ wpc' = [wpc EXCEPT ![w] = "reading"]
            /\ UNCHANGED << found_paths, returned, probed >>
    /\ UNCHANGED << command, config, wordfile, target, pc, error, exit_code, session,
                    sessions, queue, stop_event, cur, cancelled, results_file, pulls >>

\* response.text() ends: with an exception, or with the body.
WebProbeBody(w) ==
    /\ command = "dir"
    /\ wpc[w] = "reading"
    /\ LET resp == target[cur[w].word]
       IN IF resp.kind = "read_err"
          THEN WebRoute(w, Miss)
          ELSE WebRoute(w, check_path(resp, cur[w].word, config.success_indicators))
    /\ UNCHANGED << command, config, wordfile, target, pc, error, exit_code, session,
                    sessions, queue, stop_event, scanned_count, cur, cancelled,
                    results_file, pulls >>

\* Variant: the stop event is left as it is after a hit.
StopOnSuccess_Missing(stop) == stop

\* Variant: the event is toggled, so that a second hit clears it.
StopOnSuccess_Toggle(stop) == ~stop

\* self.stop_event.set() after a hit
StopOnSuccess(stop) == TRUE

\* JoomlaBruter.worker after brute_force_login has returned
JoomlaRoute(w, ok) ==
    /\ probed' = [probed EXCEPT ![cur[w].id] = @ + 1]
    /\ IF ok
       THEN /\ found_paths' = RecordHit(found_paths, cur[w].word)
            /\ returned' = Append(returned, cur[w].word)
            /\ stop_event' = StopOnSuccess(stop_event)
       ELSE UNCHANGED << found_paths, returned, stop_event >>
    /\ wpc' = [wpc EXCEPT ![w] = "sleeping"]

\* session.post() ends: with an exception (brute_force_login returns
\* False), or with the response.
JoomlaProbeResponse(w) ==
    /\ command = "joomla"
    /\ wpc[w] = "requesting"
    /\ IF target[cur[w].word].kind = "conn_err"
       THEN JoomlaRoute(w, FALSE)
       ELSE /\ wpc' = [wpc EXCEPT ![w] = "reading"]
            /\ UNCHANGED << found_paths, returned, stop_event, probed >>
    /\ UNCHANGED << command, config, wordfile, target, pc, error, exit_code, session,
                    sessions, queue, scanned_count, cur, cancelled, results_file,
                    pulls >>

\* response.text() ends: with an exception, or with the body.
JoomlaProbeBody(w) ==
    /\ command = "joomla"
    /\ wpc[w] = "reading"
    /\ LET resp == target[cur[w].word]
       IN IF resp.kind = "read_err"
          THEN JoomlaRoute(w, FALSE)
          ELSE JoomlaRoute(w, brute_force_login(resp, config.success_indicators))
    /\ UNCHANGED << command, config, wordfile, target, pc, error, exit_code, session,
                    sessions, queue, scanned_count, cur, cancelled, results_file,
                    pulls >>

\* ------------------------------------------------------------- sessions
\* init_session: a new ClientSession, open, becomes self.session
NewSession(ss) == Append(ss, "open")

\* close_session: "if self.session: await self.session.close()"
close_session(ss, cur_session) ==
    IF cur_session # 0 THEN [ss EXCEPT ![cur_session] = "closed"] ELSE ss

\* ------------------------------------------------------------- main, run
\* main(), joomla branch: "await bruter.init_session()"
MainInitSession ==
    /\ pc = "main_init_session"
    /\ \/ /\ sessions' = NewSession(sessions)
          /\ session' = Len(sessions) + 1
          /\ pc' = "detect"
          /\ UNCHANGED error
       \/ /\ error' = "SessionSetupFailed"
          /\ pc' = "except"
          /\ UNCHANGED << session, sessions >>
    /\ UNCHANGED << command, config, wordfile, target, exit_code, queue, found_paths,
                    stop_event, scanned_count, wpc, cur, cancelled, results_file,
                    pulls, probed, returned >>

\* main(), joomla branch: "config.form_data.update(await bruter.detect_login_form())".
\* The hidden fields found only travel with each login request.
DetectLoginForm ==
    /\ pc = "detect"
    /\ \/ /\ pc' = "run"
          /\ UNCHANGED error
       \/ /\ error' = "FormNotFound"
          /\ pc' = "except"
    /\ UNCHANGED << command, config, wordfile, target, exit_code, session, sessions,
                    queue, found_paths, stop_event, scanned_count, wpc, cur, cancelled,
                    results_file, pulls, probed, returned >>

\* run(): "await self.init_session()"
RunInitSession ==
    /\ pc = "run"
    /\ \/ /\ sessions' = NewSession(sessions)
          /\ session' = Len(sessions) + 1
          /\ pc' = "load"
          /\ UNCHANGED error
       \/ /\ error' = "SessionSetupFailed"
          /\ pc' = "finally"
          /\ UNCHANGED << session, sessions >>
    /\ UNCHANGED << command, config, wordfile, target, exit_code, queue, found_paths,
                    stop_event, scanned_count, wpc, cur, cancelled, results_file,
                    pulls, probed, returned >>

\* Variant: load_wordlist logs its failure and returns, without "raise".
RunLoadWordlist_Swallow ==
    /\ pc = "load"
    /\ \E k \in 0..Len(wordfile) :
          queue' = load_wordlist(queue, SubSeq(wordfile, 1, k), config.extensions)
    /\ pc' = "spawn"
    /\ pulls' = [i \in 1..Len(queue') |-> 0]
    /\ probed' = [i \in 1..Len(queue') |-> 0]
    /\ UNCHANGED << command, config, wordfile, target, error, exit_code, session,
                    sessions, found_paths, stop_event, scanned_count, wpc, cur,
                    cancelled, results_file, returned >>

\* run(): "await self.load_wordlist()": every line is read, or the file
\* cannot be opened, or reading fails after some of its lines.
RunLoadWordlist ==
    /\ pc = "load"
    /\ \/ /\ queue' = load_wordlist(queue, wordfile, config.extensions)
          /\ pc' = "spawn"
          /\ UNCHANGED error
       \/ \E k \in 0..Len(wordfile) :
             /\ queue' = load_wordlist(queue, SubSeq(wordfile, 1, k), config.extensions)
             /\ error' = "SourceUnavailable"
             /\ pc' = "finally"
    /\ pulls' = [i \in 1..Len(queue') |-> 0]
    /\ probed' = [i \in 1..Len(queue') |-> 0]
    /\ UNCHANGED << command, config, wordfile, target, exit_code, session, sessions,
                    found_paths, stop_event, scanned_count, wpc, cur, cancelled,
                    results_file, returned >>

\* Variant: a task for every worker slot, whatever config.threads.
StartedTasks_All(threads) == [w \in Workers |-> "created"]

\* for _ in range(self.config.threads): asyncio.create_task(self.worker())
StartedTasks(threads) == [w \in Workers |-> IF w \in 1..threads THEN "created" ELSE "none"]

RunStartWorkers ==
    /\ pc = "spawn"
    /\ wpc' = StartedTasks(config.threads)
    /\ pc' = "gather"
    /\ UNCHANGED << command, config, wordfile, target, error, exit_code, session,
                    sessions, queue, found_paths, stop_event, scanned_count, cur,
                    cancelled, results_file, pulls, probed, returned >>

AllTasksFinished == \A w \in Tasks : wpc[w] \in {"done", "cancelled"}

\* "await asyncio.gather(*tasks)" returns: every worker has returned
RunGather ==
    /\ pc = "gather"
    /\ ~cancelled
    /\ AllTasksFinished
    /\ pc' = "save"
    /\ UNCHANGED << command, config, wordfile, target, error, exit_code, session,
                    sessions, queue, found_paths, stop_event, scanned_count, wpc, cur,
                    cancelled, results_file, pulls, probed, returned >>

\* What the cancellation of gather() does to a worker task: Task.cancel() on
\* every task that is not done; the task's next step raises CancelledError at
\* the await it stands at (or before its first statement), and nothing in
\* worker, check_path or brute_force_login catches it.
CancelTask(state) == IF state \in {"done", "none"} THEN state ELSE "cancelled"

\* The main task is cancelled while run() awaits gather(*tasks).
Cancel ==
    /\ pc = "gather"
    /\ ~cancelled
    /\ cancelled' = TRUE
    /\ wpc' = [w \in Workers |-> CancelTask(wpc[w])]
    /\ cur' = [w \in Workers |-> NoEntry]
    /\ UNCHANGED << command, config, wordfile, target, pc, error, exit_code, session,
                    sessions, queue, found_paths, stop_event, scanned_count,
                    results_file, pulls, probed, returned >>

\* "except asyncio.CancelledError: ... self.stop_event.set()": gather raises
\* into run() once every worker task has finished.
RunExceptCancelled ==
    /\ pc = "gather"
    /\ cancelled
    /\ AllTasksFinished
    /\ stop_event' = TRUE
    /\ pc' = "gather_again"
    /\ UNCHANGED << command, config, wordfile, target, error, exit_code, session,
                    sessions, queue, found_paths, scanned_count, wpc, cur, cancelled,
                    results_file, pulls, probed, returned >>

\* Variant: after a cancellation run() goes straight to its finally clause.
RunGatherAgain_SkipSave ==
    /\ pc = "gather_again"
    /\ pc' = "finally"
    /\ UNCHANGED << command, config, wordfile, target, error, exit_code, session,
                    sessions, queue, found_paths, stop_event, scanned_count, wpc, cur,
                    cancelled, results_file, pulls, probed, returned >>

\* "await asyncio.gather(*tasks, return_exceptions=True)"
RunGatherAgain ==
    /\ pc = "gather_again"
    /\ AllTasksFinished
    /\ pc' = "save"
    /\ UNCHANGED << command, config, wordfile, target, error, exit_code, session,
                    sessions, queue, found_paths, stop_event, scanned_count, wpc, cur,
                    cancelled, results_file, pulls, probed, returned >>

\* "if self.found_paths: json.dump(self.found_paths, f)"
SaveResults(fp, file) == IF fp # <<>> THEN fp ELSE file

RunSaveResults ==
    /\ pc = "save"
    /\ results_file' = SaveResults(found_paths, results_file)
    /\ pc' = "finally"
    /\ UNCHANGED << command, config, wordfile, target, error, exit_code, session,
                    sessions, queue, found_paths, stop_event, scanned_count, wpc, cur,
                    cancelled, pulls, probed, returned >>

\* "finally: await self.close_session()", then run() returns or re-raises
RunFinally ==
    /\ pc = "finally"
    /\ sessions' = close_session(sessions, session)
    /\ pc' = IF error = "none" THEN "returned" ELSE "except"
    /\ UNCHANGED << command, config, wordfile, target, error, exit_code, session,
                    queue, found_paths, stop_event, scanned_count, wpc, cur, cancelled,
                    results_file, pulls, probed, returned >>

\* main(): "except Exception: ... sys.exit(1)"
MainExcept ==
    /\ pc = "except"
    /\ exit_code' = 1
    /\ pc' = "exit"
    /\ UNCHANGED << command, config, wordfile, target, error, session, sessions, queue,
                    found_paths, stop_event, scanned_count, wpc, cur, cancelled,
                    results_file, pulls, probed, returned >>

\* main() returns after "await bruter.run()": the process ends with code 0
MainReturn ==
    /\ pc = "returned"
    /\ exit_code' = 0
    /\ pc' = "exit"
    /\ UNCHANGED << command, config, wordfile, target, error, session, sessions, queue,
                    found_paths, stop_event, scanned_count, wpc, cur, cancelled,
                    results_file, pulls, probed, returned >>

\* ------------------------------------------------------------- specification
\* BruteForceConfig as main() builds it for each command
Configs(cmd) ==
    [ extensions : IF cmd = "dir" THEN ExtChoices ELSE {<<>>},
      threads : 1..MaxThreads,
      success_indicators : IF cmd = "dir" THEN {<<>>} ELSE {<<Indicator>>} ]

Responses(cmd) == IF cmd = "dir" THEN DirResponses ELSE JoomlaResponses

\* WebBruter.__init__, after main() has parsed its arguments
Init ==
    /\ command \in {"dir", "joomla"}
    /\ config \in Configs(command)
    /\ wordfile \in Files
    /\ target \in [Candidates(wordfile, config.extensions) -> Responses(command)]
    /\ pc = IF command = "dir" THEN "run" ELSE "main_init_session"
    /\ error = "none"
    /\ exit_code = -1
    /\ session = 0
    /\ sessions = <<>>
    /\ queue = <<>>
    /\ found_paths = <<>>
    /\ stop_event = FALSE
    /\ scanned_count = 0
    /\ wpc = [w \in Workers |-> "none"]
    /\ cur = [w \in Workers |-> NoEntry]
    /\ cancelled = FALSE
    /\ results_file = <<>>
    /\ pulls = <<>>
    /\ probed = <<>>
    /\ returned = <<>>

Next ==
    \/ MainInitSession
    \/ DetectLoginForm
    \/ RunInitSession
    \/ RunLoadWordlist
    \/ RunStartWorkers
    \/ \E w \in Workers : WorkerLoop(w)
    \/ \E w \in Workers : WebProbeResponse(w)
    \/ \E w \in Workers : WebProbeBody(w)
    \/ \E w \in Workers : JoomlaProbeResponse(w)
    \/ \E w \in Workers : JoomlaProbeBody(w)
    \/ RunGather
    \/ Cancel
    \/ RunExceptCancelled
    \/ RunGatherAgain
    \/ RunSaveResults
    \/ RunFinally
    \/ MainExcept
    \/ MainReturn

Spec == Init /\ [][Next]_vars

\* ------------------------------------------------------------- properties
\* The queue as a complete load leaves it.
Loaded == load_wordlist(<<>>, wordfile, config.extensions)

\* run() has created its worker tasks.
RunStarted == \E w \in Workers : wpc[w] # "none"

\* run() is past its wait for the workers.
WorkersOver == RunStarted /\ pc \in {"save", "finally", "returned", "exit"}

InFlight(w) == wpc[w] \in {"requesting", "reading"}

\* What the probe of a candidate returns to its worker when it runs to its
\* end, as the entry found_paths gets, and whether that is a Hit.
ProbeIsHit(word) ==
    /\ target[word].kind = "ok"
    /\ IF command = "dir"
       THEN IsFound(check_path(target[word], word, config.success_indicators)[1])
       ELSE brute_force_login(target[word], config.success_indicators)

ProbeHit(word) ==
    IF command = "dir"
    THEN check_path(target[word], word, config.success_indicators)
    ELSE word

\* C1: in both modes and for every number of workers, no queue entry is ever
\* pulled more than once, by two workers or twice by one.
C1_AtMostOnce == \A i \in DOMAIN pulls : pulls[i] <= 1

\* Two workers hold two different entries at the same time.
C1_Witness ==
    \E v, w \in Tasks :
        /\ v # w
        /\ InFlight(v) /\ InFlight(w)
        /\ cur[v].id # cur[w].id
        /\ pulls[cur[v].id] = 1 /\ pulls[cur[w].id] = 1

\* C2: once the stop event is set, no step pulls an entry from the queue or
\* starts a probe; probes already in flight may end.
C2_NoPullAfterStop ==
    [][stop_event =>
         /\ queue' = queue
         /\ pulls' = pulls
         /\ \A w \in Workers : InFlight(w)' => InFlight(w)]_vars

\* A worker has left its loop on the stop event with entries still queued.
C2_Witness ==
    /\ stop_event
    /\ queue # <<>>
    /\ \E w \in Tasks : wpc[w] = "done"

\* C3: after a cancellation during the worker phase, every probe that was in
\* flight has run to its end and its Hit is in the result list by the time
\* run() has stopped waiting for the workers.
C3_InFlightProbesComplete ==
    (cancelled /\ pc = "save") =>
        \A i \in DOMAIN pulls :
            /\ probed[i] = pulls[i]
            /\ (pulls[i] > 0 /\ ProbeIsHit(Loaded[i].word))
                   => ProbeHit(Loaded[i].word) \in Range(found_paths)

\* C4: when the invocation ends, every session that init_session created is
\* closed.
C4_AllSessionsClosed ==
    pc = "exit" => \A i \in 1..Len(sessions) : sessions[i] = "closed"

\* C5, as claimed: in joomla mode the result list never holds two accepted
\* secrets.
C5_AtMostOneHit == command = "joomla" => Len(found_paths) <= 1

\* C5, amended: in joomla mode the result list never holds more accepted
\* secrets than there are workers; with one worker it holds at most one.
C5_AtMostThreadsHits == command = "joomla" => Len(found_paths) <= config.threads

\* Two workers have each recorded an accepted secret.
C5_Witness ==
    /\ command = "joomla"
    /\ config.threads = 2
    /\ Len(found_paths) = 2
    /\ stop_event

\* The queue entries whose response body carries a configured indicator.
AcceptedIds ==
    {i \in 1..Len(Loaded) :
        /\ target[Loaded[i].word].kind = "ok"
        /\ AnyIndicator(config.success_indicators, target[Loaded[i].word].body)}

\* C6: in joomla mode with exactly one accepted entry, an uncancelled run
\* ends with that entry's word as its only hit; the hit and the stop event
\* appear in one step, and no entry is pulled once the hit is recorded.
C6_OneHitThenStop ==
    /\ [](command = "joomla" =>
            /\ (found_paths # <<>> => stop_event)
            /\ (WorkersOver /\ ~cancelled /\ Cardinality(AcceptedIds) = 1)
                   => found_paths = << Loaded[CHOOSE i \in AcceptedIds : TRUE].word >>)
    /\ [][(command = "joomla" /\ found_paths # <<>>) => pulls' = pulls /\ queue' = queue]_vars

\* The one accepted entry was found and the entry after it was never pulled.
C6_Witness ==
    /\ command = "joomla"
    /\ pc = "exit"
    /\ ~cancelled
    /\ Cardinality(AcceptedIds) = 1
    /\ Len(found_paths) = 1
    /\ queue # <<>>
    /\ \E i \in DOMAIN pulls : pulls[i] = 0

\* C7: in dir mode without a cancellation, once the workers have ended the
\* queue is empty and every loaded entry was pulled once and probed once.
C7_AllProcessedOnce ==
    []((command = "dir" /\ WorkersOver /\ ~cancelled) =>
          /\ queue = <<>>
          /\ DOMAIN pulls = 1..Len(Loaded)
          /\ \A i \in DOMAIN pulls : pulls[i] = 1 /\ probed[i] = 1
          /\ \A w \in Tasks : wpc[w] = "done")

\* Two workers have shared at least three entries.
C7_Witness ==
    /\ command = "dir"
    /\ pc = "exit"
    /\ ~cancelled
    /\ RunStarted
    /\ config.threads = 2
    /\ Len(pulls) >= 3
    /\ \A i \in DOMAIN pulls : probed[i] = 1

\* The queue entries whose probe has returned a Hit to its worker.
HitsReturned ==
    LET L == Loaded
    IN {i \in DOMAIN probed : probed[i] > 0 /\ ProbeIsHit(L[i].word)}

\* C8: in both modes the result list holds, in order, exactly the Hit
\* outcomes the probes have returned to their workers, one entry per probe
\* that ended in a Hit, at every moment, whatever stops or cancels the
\* workers afterwards.
C8_HitNeverDiscarded ==
    [](/\ found_paths = returned
       /\ Len(found_paths) = Cardinality(HitsReturned))

\* Two hits were returned and recorded, and the workers were then cancelled.
C8_Witness ==
    /\ cancelled
    /\ Len(returned) >= 2
    /\ \E w \in Tasks : wpc[w] = "cancelled"

\* C9: after a cancellation during the worker phase run() ends without an
\* error, and the hits collected are in the results file when the session
\* is about to be closed and from then on.
C9_CancelledRunPersists ==
    cancelled =>
        /\ error = "none"
        /\ exit_code \in {-1, 0}
        /\ pc \in {"gather", "gather_again", "save", "finally", "returned", "exit"}
        /\ pc \in {"finally", "returned", "exit"} => results_file = found_paths
        /\ pc \in {"gather", "gather_again", "save", "finally"} =>
               (session # 0 /\ sessions[session] = "open")

\* A cancelled run has ended with code 0 and its hits on file.
C9_Witness ==
    /\ cancelled
    /\ pc = "exit"
    /\ exit_code = 0
    /\ found_paths # <<>>
    /\ results_file = found_paths

TransportFails(word) == target[word].kind \in {"conn_err", "read_err"}

\* The probe of worker w is at the await that raises.
FailingStep(w) ==
    \/ wpc[w] = "requesting" /\ target[cur[w].word].kind = "conn_err"
    \/ wpc[w] = "reading" /\ target[cur[w].word].kind = "read_err"

\* C10: a probe whose transport fails ends as a Miss: its worker goes to the
\* throttle with nothing recorded and no error raised; and a started run in
\* which every probe fails ends with code 0, every entry pulled and probed
\* once and no hit.
C10_TransportFailureIsMiss ==
    /\ []((RunStarted /\ pc = "exit" /\ ~cancelled
              /\ \A c \in DOMAIN target : TransportFails(c)) =>
            /\ exit_code = 0
            /\ error = "none"
            /\ found_paths = <<>>
            /\ queue = <<>>
            /\ \A i \in DOMAIN pulls : pulls[i] = 1 /\ probed[i] = 1)
    /\ [][\A w \in Workers :
            (FailingStep(w) /\ wpc'[w] # wpc[w]) =>
                \/ cancelled'
                \/ /\ wpc'[w] = "sleeping"
                   /\ found_paths' = found_paths
                   /\ error' = error
                   /\ probed'[cur[w].id] = probed[cur[w].id] + 1]_vars

\* A run of at least two entries whose probes all failed has ended normally.
C10_Witness ==
    /\ RunStarted
    /\ pc = "exit"
    /\ ~cancelled
    /\ Len(pulls) >= 2
    /\ \A c \in DOMAIN target : TransportFails(c)
    /\ \A i \in DOMAIN pulls : probed[i] = 1

\* C11: when the session cannot be created or the wordlist cannot be loaded,
\* the run does not start: no worker task exists, nothing is probed or
\* written, and the process ends with code 1; worker tasks exist only after
\* a complete load, with the session open.
C11_SetupFailureAborts ==
    /\ error \in {"SessionSetupFailed", "SourceUnavailable"} =>
          /\ ~RunStarted
          /\ \A i \in DOMAIN pulls : pulls[i] = 0 /\ probed[i] = 0
          /\ scanned_count = 0
          /\ found_paths = <<>>
          /\ results_file = <<>>
          /\ pc \in {"finally", "except", "exit"}
          /\ exit_code = IF pc = "exit" THEN 1 ELSE -1
    /\ RunStarted =>
          /\ error = "none"
          /\ Len(pulls) = Len(Loaded)
          /\ session # 0

\* The wordlist failed after some of its lines were queued, and the process
\* has ended with code 1 and the session closed.
C11_Witness ==
    /\ pc = "exit"
    /\ error = "SourceUnavailable"
    /\ exit_code = 1
    /\ queue # <<>>
    /\ session # 0 /\ sessions[session] = "closed"

\* How many times x occurs in a sequence.
CountIn(seq, x) == Cardinality({k \in 1..Len(seq) : seq[k] = x})

\* The loaded entries the target answers with a Hit, and the hits they give:
\* both depend on the wordlist, the extensions and the target only.
ExpectedHitIds ==
    LET L == Loaded
    IN {i \in 1..Len(L) : ProbeIsHit(L[i].word)}

ExpectedHits ==
    LET L == Loaded
    IN {ProbeHit(L[i].word) : i \in ExpectedHitIds}

\* C12: in dir mode without a cancellation, the hits in the final result
\* list are, as a multiset, the hits of the loaded entries the target answers
\* with a Hit, whatever the number of workers and their interleaving.
C12_SameHitsAnyConcurrency ==
    []((command = "dir" /\ WorkersOver /\ ~cancelled) =>
          LET L == Loaded
              ids == ExpectedHitIds
          IN \A h \in Range(found_paths) \cup ExpectedHits :
                 CountIn(found_paths, h) =
                     Cardinality({i \in ids : ProbeHit(L[i].word) = h}))

\* Two workers have ended a run whose two hits are recorded in the order
\* opposite to that of the wordlist.
C12_Witness ==
    /\ command = "dir"
    /\ pc = "exit"
    /\ ~cancelled
    /\ config.threads = 2
    /\ Len(found_paths) = 2
    /\ \E i, j \in ExpectedHitIds :
          /\ i < j
          /\ found_paths[1] = ProbeHit(Loaded[j].word)
          /\ found_paths[2] = ProbeHit(Loaded[i].word)
          /\ found_paths[1] # found_paths[2]

\* C13: no step of a worker, of run() or of main() clears the stop event
\* once it is set.
C13_StopMonotone == [][stop_event => stop_event']_vars

\* Both setters have acted in one run: a worker on its hit, then run() on the
\* cancellation.
C13_Witness ==
    /\ command = "joomla"
    /\ stop_event
    /\ cancelled
    /\ found_paths # <<>>
    /\ pc = "exit"

IsPrefix(s, t) == Len(s) <= Len(t) /\ SubSeq(t, 1, Len(s)) = s

\* C14: every step leaves the result list as it was or extends it at its
\* end, and no step changes it once every worker task has ended.
C14_AppendOnly ==
    [][/\ IsPrefix(found_paths, found_paths')
       /\ (RunStarted /\ AllTasksFinished) => found_paths' = found_paths]_vars

\* A run has ended with two hits, written as they were recorded.
C14_Witness ==
    /\ pc = "exit"
    /\ Len(found_paths) >= 2
    /\ results_file = found_paths
    /\ RunStarted /\ AllTasksFinished

\* ------------------------------------------------------------- check_path
\* A specification of dir-mode runs that widens what check_path sees: more
\* statuses, bodies with and without the indicators, indicators configured
\* for WebBruter, a candidate with a leading "/"; and the run of the
\* wordlist [a, b.c, d] with one extension against a target that answers
\* 200 to a and a.p only.
StatusSamples == {200, 204, 301, 302, 403, 404, 500}

BodySamples == { {}, {Indicator}, {"Welcome"} }

ProbeResponses ==
    {Response("conn_err", 0, {})}
        \cup {Response("ok", st, b) : st \in StatusSamples, b \in BodySamples}

ProbeIndicatorChoices == { <<>>, <<Indicator>>, <<"Welcome", Indicator>> }

ProbeFiles == { << <<"a", "\n">> >>, << <<"/", "a", "\n">> >> }

ScenarioFile == << <<"a", "\n">>, <<"b", ".", "c", "\n">>, <<"d", "\n">> >>

ScenarioExtensions == << <<".", "p">> >>

ScenarioTarget ==
    [c \in Candidates(ScenarioFile, ScenarioExtensions) |->
        IF c \in {<<"a">>, <<"a", ".", "p">>}
        THEN Response("ok", 200, {}) ELSE Response("ok", 404, {})]

ProbeInit ==
    /\ command = "dir"
    /\ \/ /\ wordfile \in ProbeFiles
          /\ config \in [ extensions : {<<>>}, threads : {1},
                          success_indicators : ProbeIndicatorChoices ]
          /\ target \in [Candidates(wordfile, config.extensions) -> ProbeResponses]
       \/ /\ wordfile = ScenarioFile
          /\ config \in [ extensions : {ScenarioExtensions}, threads : 1..MaxThreads,
                          success_indicators : {<<>>} ]
          /\ target = ScenarioTarget
    /\ pc = "run"
    /\ error = "none"
    /\ exit_code = -1
    /\ session = 0
    /\ sessions = <<>>
    /\ queue = <<>>
    /\ found_paths = <<>>
    /\ stop_event = FALSE
    /\ scanned_count = 0
    /\ wpc = [w \in Workers |-> "none"]
    /\ cur = [w \in Workers |-> NoEntry]
    /\ cancelled = FALSE
    /\ results_file = <<>>
    /\ pulls = <<>>
    /\ probed = <<>>
    /\ returned = <<>>

ProbeNext ==
    \/ RunInitSession
    \/ RunLoadWordlist
    \/ RunStartWorkers
    \/ \E w \in Workers : WorkerLoop(w)
    \/ \E w \in Workers : WebProbeResponse(w)
    \/ \E w \in Workers : WebProbeBody(w)
    \/ RunGather
    \/ RunSaveResults
    \/ RunFinally
    \/ MainExcept
    \/ MainReturn

ProbeSpec == ProbeInit /\ [][ProbeNext]_vars

\* The classification as claimed, for the response to a loaded entry.
ClaimedIsHit(i) ==
    LET resp == target[Loaded[i].word]
    IN \/ \E k \in 1..Len(config.success_indicators) :
              config.success_indicators[k] \in resp.body
       \/ resp.status \in {200, 301, 302, 403}

\* The Hit as claimed: the response status and the target base joined to the
\* candidate by one "/".
ClaimedHit(i) ==
    LET word == Loaded[i].word
    IN << target[word].status,
          <<"t", "/">> \o (IF Head(word) = "/" THEN Tail(word) ELSE word) >>

\* The entries whose probe has returned with a response.
Answered == {i \in DOMAIN probed : probed[i] > 0 /\ target[Loaded[i].word].kind = "ok"}

\* C15: the result list holds exactly the Hits, status and joined URL, of the
\* answered entries whose body carries a configured indicator or whose
\* status is 200, 301, 302 or 403, and nothing for any other entry; the run
\* of [a, b.c, d] with extension .p ends with the two hits for a and a.p.
C15_Classification ==
    /\ Len(found_paths) = Cardinality({i \in Answered : ClaimedIsHit(i)})
    /\ \A i \in Answered : ClaimedIsHit(i) => ClaimedHit(i) \in Range(found_paths)
    /\ \A k \in 1..Len(found_paths) :
          \E i \in Answered : ClaimedIsHit(i) /\ found_paths[k] = ClaimedHit(i)
    /\ (wordfile = ScenarioFile /\ WorkersOver) =>
          /\ Len(found_paths) = 2
          /\ Range(found_paths) =
                { <<200, <<"t", "/", "a">>>>, <<200, <<"t", "/", "a", ".", "p">>>> }

\* A response with status 404 whose body carries an indicator was recorded
\* as a Hit with its status, for the candidate "/a".
C15_Witness ==
    /\ pc = "exit"
    /\ wordfile = << <<"/", "a", "\n">> >>
    /\ found_paths = << <<404, <<"t", "/", "a">>>> >>


\* ------------------------------------------------------------- load_wordlist
\* A specification of the loading step alone, over wordlists with blank,
\* whitespace-only, padded and dotted lines and zero to two extensions.
LoadMaxLines == 3

LoadLines ==
    { <<"a", "\n">>, <<" ", "d", " ", "\n">>, <<"\n">>, <<" ", "\n">>,
      <<"b", ".", "c", "\n">> }

LoadFiles == SeqsUpTo(LoadLines, LoadMaxLines)

LoadExtChoices == { <<>>, << <<".", "p">> >>, << <<".", "p">>, <<".", "q">> >> }

LoadInit ==
    /\ command = "dir"
    /\ wordfile \in LoadFiles
    /\ config \in [ extensions : LoadExtChoices, threads : {1},
                    success_indicators : {<<>>} ]
    /\ target = [c \in Candidates(wordfile, config.extensions) |-> Response("ok", 404, {})]
    /\ pc = "run"
    /\ error = "none"
    /\ exit_code = -1
    /\ session = 0
    /\ sessions = <<>>
    /\ queue = <<>>
    /\ found_paths = <<>>
    /\ stop_event = FALSE
    /\ scanned_count = 0
    /\ wpc = [w \in Workers |-> "none"]
    /\ cur = [w \in Workers |-> NoEntry]
    /\ cancelled = FALSE
    /\ results_file = <<>>
    /\ pulls = <<>>
    /\ probed = <<>>
    /\ returned = <<>>

LoadNext ==
    \/ RunInitSession
    \/ RunLoadWordlist
    \/ RunFinally
    \/ MainExcept

LoadSpec == LoadInit /\ [][LoadNext]_vars

\* The lines of the file that are not empty after trimming, and those
\* among them without the separator.
NonEmptyLines == {i \in 1..Len(wordfile) :
                    \E j \in 1..Len(wordfile[i]) : wordfile[i][j] \notin {" ", "\n"}}

DotFreeLines == {i \in NonEmptyLines :
                    \A j \in 1..Len(wordfile[i]) : wordfile[i][j] # "."}

IsBlank(ch) == ch \in {" ", "\n"}

\* A line without its surrounding whitespace (no line has any inside).
Trimmed(i) == SelectSeq(wordfile[i], LAMBDA ch : ~IsBlank(ch))

\* Where the base word of line i stands in the queue.
BasePos(i) ==
    1 + Cardinality({j \in NonEmptyLines : j < i})
      + Len(config.extensions) * Cardinality({j \in DotFreeLines : j < i})

\* C16: once load_wordlist has returned, the queue holds N + K * (number of
\* separator-free lines) candidates, between N and N * (1 + K), for N
\* non-empty lines and K extensions; the base words stand in input order,
\* each separator-free one directly followed by its variants in the order of
\* the extensions.
C16_LoadCount ==
    LET N == Cardinality(NonEmptyLines)
        K == Len(config.extensions)
        D == Cardinality(DotFreeLines)
    IN pc = "spawn" =>
          /\ Len(queue) = N + K * D
          /\ Len(queue) >= N
          /\ Len(queue) <= N * (1 + K)
          /\ D = N => Len(queue) = N * (1 + K)
          /\ \A i \in NonEmptyLines :
                /\ queue[BasePos(i)].word = Trimmed(i)
                /\ i \in DotFreeLines =>
                      \A k \in 1..K :
                          queue[BasePos(i) + k].word = Trimmed(i) \o config.extensions[k]

\* A padded line, a blank line and a dotted line were loaded with two
\* extensions: four candidates.
C16_Witness ==
    /\ pc = "spawn"
    /\ wordfile = << <<" ", "d", " ", "\n">>, <<"\n">>, <<"b", ".", "c", "\n">> >>
    /\ Len(config.extensions) = 2
    /\ Len(queue) = 4


RECURSIVE SumSeq(_)
SumSeq(s) == IF s = <<>> THEN 0 ELSE Head(s) + SumSeq(Tail(s))

\* C17: in dir mode, once every worker has ended in a run that was not
\* interrupted, scanned_count equals the number of candidates pulled from
\* the queue (one increment per check_path call, whatever its outcome).
C17_CountedOncePerProbe ==
    (command = "dir" /\ WorkersOver /\ ~cancelled) => scanned_count = SumSeq(pulls)


\* ------------------------------------------------------------- termination
\* The steps the event loop takes on its own: every task that is ready is
\* run, and every request and every read of a body ends, with a response or
\* with a failure. The interrupt (Cancel) comes from outside and is not
\* among them.
Scheduled ==
    \/ MainInitSession
    \/ DetectLoginForm
    \/ RunInitSession
    \/ RunLoadWordlist
    \/ RunStartWorkers
    \/ \E w \in Workers : WorkerLoop(w)
    \/ \E w \in Workers : WebProbeResponse(w)
    \/ \E w \in Workers : WebProbeBody(w)
    \/ \E w \in Workers : JoomlaProbeResponse(w)
    \/ \E w \in Workers : JoomlaProbeBody(w)
    \/ RunGather
    \/ RunExceptCancelled
    \/ RunGatherAgain
    \/ RunSaveResults
    \/ RunFinally
    \/ MainExcept
    \/ MainReturn

\* The runs without extensions: the candidates are the words of the file.
FairInit == Init /\ config.extensions = <<>>

FairSpec == FairInit /\ [][Next]_vars /\ WF_vars(Scheduled)

\* C18: under fair scheduling every run ends (the process exits), every
\* worker that was started leaves its loop, by returning or by being
\* cancelled, and no worker is ever suspended in queue.get() on an empty
\* queue.
C18_Terminates ==
    /\ <>[](pc = "exit" /\ \A w \in Workers : wpc[w] \in {"none", "done", "cancelled"})
    /\ [](\A w \in Workers : wpc[w] # "blocked_get")

\* A run with more workers than candidates has ended without an interrupt:
\* one worker took the only candidate and the other found the queue empty.
C18_Witness ==
    /\ pc = "exit"
    /\ ~cancelled
    /\ config.threads > Len(Loaded)
    /\ Len(Loaded) = 1
    /\ pulls = <<1>>
    /\ \A w \in Tasks : wpc[w] = "done"


\* C19: workers exist only once load_wordlist has returned, and then exactly
\* config.threads of them; before any of them has run the queue holds the
\* whole wordlist, and later every loaded candidate is in the queue or has
\* been pulled; at most config.threads probes are in flight; and a worker
\* that has returned
\* while the stop event is clear has seen the queue empty, so every loaded
\* candidate has been pulled.
C19_WorkersAndQueue ==
    [](/\ pc \in {"main_init_session", "detect", "run", "load", "spawn"} => ~RunStarted
       /\ RunStarted =>
             /\ Cardinality({w \in Workers : wpc[w] # "none"}) = config.threads
             /\ (\A w \in Tasks : wpc[w] = "created") => queue = Loaded
             /\ Len(queue) + SumSeq(pulls) = Len(pulls)
       /\ Cardinality({w \in Workers : InFlight(w)}) <= config.threads
       /\ (~stop_event /\ \E w \in Workers : wpc[w] = "done") =>
             /\ queue = <<>>
             /\ \A i \in DOMAIN pulls : pulls[i] >= 1)

\* Of two workers, one has returned on an empty queue while the probe of
\* the other is in flight.
C19_Witness ==
    /\ config.threads = 2
    /\ ~stop_event
    /\ Len(Loaded) >= 2
    /\ \E w, v \in Workers : wpc[w] = "done" /\ InFlight(v)

====
